---- MODULE Spec2Model ----
(***************************************************************************)
(* Model of aio-index: the /analyze request handler (src/aio_api.py) and   *)
(* the remote-store helpers it drives (src/aio_host.py).                   *)
(*                                                                         *)
(* Python strings are modelled as sequences of one-character strings, so   *)
(* that replace/strip/startswith are computed character by character.      *)
(***************************************************************************)
EXTENDS Integers, Sequences, FiniteSets, TLC

(***************************************************************************)
(* Bounds of the model.                                                    *)
(***************************************************************************)
NumWorkers == 2      \* request handlers that may run side by side
MaxRequests == 2     \* requests received in one behaviour
MaxTokens == 3       \* tokens per generated URL in the pure-function harness
MaxInitIndex == 2    \* entries of an index.json that exists before the first request

(***************************************************************************)
(* String literals of the source.                                          *)
(***************************************************************************)
HTTPS_PREFIX == <<"h", "t", "t", "p", "s", ":", "/", "/">>
HTTP_PREFIX == <<"h", "t", "t", "p", ":", "/", "/">>
DATA_PREFIX == <<"d", "a", "t", "a", "/">>
JSON_EXT == <<".", "j", "s", "o", "n">>
index_path == <<"i", "n", "d", "e", "x">> \o JSON_EXT
SanitizedChars == {"/", "?", "&", "=", "#"}
Whitespace == {" "}

\* Python None (a query parameter or body field that was not supplied).
None == <<"<None>">>

(***************************************************************************)
(* Python str methods.                                                     *)
(***************************************************************************)
StartsWith(s, p) == Len(s) >= Len(p) /\ SubSeq(s, 1, Len(p)) = p

EndsWith(s, p) == Len(s) >= Len(p) /\ SubSeq(s, Len(s) - Len(p) + 1, Len(s)) = p

\* str.replace(old, new): every non-overlapping occurrence, left to right.
RECURSIVE Replace(_, _, _)
Replace(s, old, new) ==
    IF s = <<>> THEN <<>>
    ELSE IF StartsWith(s, old)
         THEN new \o Replace(SubSeq(s, Len(old) + 1, Len(s)), old, new)
         ELSE <<Head(s)>> \o Replace(Tail(s), old, new)

\* str.lstrip(chars)
RECURSIVE LStrip(_, _)
LStrip(s, chars) ==
    IF s # <<>> /\ Head(s) \in chars THEN LStrip(Tail(s), chars) ELSE s

\* str.rstrip(chars)
RECURSIVE RStrip(_, _)
RStrip(s, chars) ==
    IF s # <<>> /\ s[Len(s)] \in chars
    THEN RStrip(SubSeq(s, 1, Len(s) - 1), chars)
    ELSE s

\* str.strip(chars)
Strip(s, chars) == RStrip(LStrip(s, chars), chars)

(***************************************************************************)
(* sanitize_filename (aio_host.py).                                        *)
(***************************************************************************)
RECURSIVE ReplaceEach(_, _)
ReplaceEach(s, chars) ==
    IF s = <<>> THEN <<>>
    ELSE <<IF Head(s) \in chars THEN "_" ELSE Head(s)>> \o ReplaceEach(Tail(s), chars)

sanitize_filename(url) ==
    LET stripped == Replace(Replace(url, HTTPS_PREFIX, <<>>), HTTP_PREFIX, <<>>)
    IN  Strip(ReplaceEach(stripped, SanitizedChars), {"_"}) \o JSON_EXT

(***************************************************************************)
(* URL normalisation of the request handler (aio_api.py).                  *)
(***************************************************************************)
\* Mutant: every trailing / is removed, not just one.
NormalizeUrlRStrip(raw) ==
    LET trimmed == Strip(raw, Whitespace)
        schemed == IF ~StartsWith(trimmed, HTTP_PREFIX) /\ ~StartsWith(trimmed, HTTPS_PREFIX)
                   THEN HTTPS_PREFIX \o LStrip(trimmed, {"/"})
                   ELSE trimmed
    IN  RStrip(schemed, {"/"})

NormalizeUrl(raw) ==
    LET trimmed == Strip(raw, Whitespace)
        schemed == IF ~StartsWith(trimmed, HTTP_PREFIX) /\ ~StartsWith(trimmed, HTTPS_PREFIX)
                   THEN HTTPS_PREFIX \o LStrip(trimmed, {"/"})
                   ELSE trimmed
    IN  IF EndsWith(schemed, <<"/">>)
        THEN SubSeq(schemed, 1, Len(schemed) - 1)
        ELSE schemed

\* upload_json's path rule: anything not already under data/ is put there.
UploadPath(path) ==
    IF StartsWith(path, DATA_PREFIX) THEN path ELSE DATA_PREFIX \o path

(***************************************************************************)
(* Request inputs.                                                         *)
(***************************************************************************)
\* Raw URL values a client sends: "a", "http://a", "index" and " ".
RawUrls == { <<"a">>, HTTP_PREFIX \o <<"a">>, <<"i", "n", "d", "e", "x">>, <<" ">> }

Methods == {"GET", "POST"}

\* The query parameter url: absent (Query(None)), empty, or a raw URL.
Queries == {None, <<>>} \cup RawUrls

\* The POST body: no bytes at all, bytes that are not JSON, JSON that is not
\* an object, or a JSON object whose url field is absent (None) or a string.
Bodies ==
    { [kind |-> k, url |-> None] : k \in {"empty", "malformed", "nonobject"} }
    \cup { [kind |-> "object", url |-> u] : u \in {None} \cup RawUrls }

NoBody == [kind |-> "empty", url |-> None]

\* aio_score values the summarizer returns.
Scores == {20}
FallbackScore == 0

\* Python truthiness of an optional string.
Truthy(u) == u # None /\ u # <<>>

(***************************************************************************)
(* The remote store (GitHub contents API): path -> file content.  The      *)
(* revision marker (sha) of a file is determined by its content, so it is  *)
(* modelled as the content itself.                                         *)
(***************************************************************************)
NoFile == [kind |-> "none"]

Document(url, score, t) ==
    [kind |-> "dict", source |-> url, generated_at |-> t, aio_score |-> score]

IndexEntry(source_url, filename, aio_score, t) ==
    [source |-> source_url, json |-> DATA_PREFIX \o filename,
     aio_score |-> aio_score, last_updated |-> t]

IndexDocument(items) == [kind |-> "array", items |-> items]

\* Bytes that do not decode to JSON.
Garbage == [kind |-> "garbage"]

VARIABLES
    store,      \* remote store: existing path -> content
    req,        \* per worker: the request it is handling
    nreq,       \* requests received so far
    ok_urls,    \* history: normalized URLs of the requests answered 200, in order
    overlapped, \* history: some request was received while another was in flight
    index0,     \* history: content of index.json in the initial state
    fn          \* pure-function harness: [op, arg, out]

vars == <<store, req, nreq, ok_urls, overlapped, index0, fn>>

Workers == 1..NumWorkers

Lookup(path) == IF path \in DOMAIN store THEN store[path] ELSE NoFile

Stored(path, content) ==
    [q \in DOMAIN store \cup {path} |-> IF q = path THEN content ELSE store[q]]

(***************************************************************************)
(* analyze (aio_api.py): URL selection and validation.                     *)
(***************************************************************************)
\* Lines 42-47: the URL a request carries, or the 400 of the except branch.
\* request.json() raises on an empty or malformed body; data.get raises on
\* JSON that is not an object, but is evaluated only when the query is falsy.
SelectUrl(method, query, body) ==
    IF method # "POST" THEN [invalid |-> FALSE, url |-> query]
    ELSE IF body.kind \in {"empty", "malformed"} THEN [invalid |-> TRUE, url |-> None]
    ELSE IF Truthy(query) THEN [invalid |-> FALSE, url |-> query]
    ELSE IF body.kind = "nonobject" THEN [invalid |-> TRUE, url |-> None]
    ELSE [invalid |-> FALSE, url |-> body.url]

Error(msg, status) == [msg |-> msg, status |-> status]
NoError == Error("", 0)

NoResp == [status |-> 0, error |-> NoError, url |-> None, aio_score |-> 0]

JSONResponse(status, error, url, aio_score) ==
    [status |-> status, error |-> error, url |-> url, aio_score |-> aio_score]

\* Lines 42-61: what the handler does with a request before the first
\* collaborator call: a 400 response, or the normalised URL to analyse.
\* raw is the URL value the handler settled on (None in the except branch).
Accept(method, query, body) ==
    LET sel == SelectUrl(method, query, body)
    IN  IF sel.invalid
        THEN [status |-> 400, error |-> Error("Invalid JSON body", 0),
              raw |-> None, url |-> None]
        ELSE IF ~Truthy(sel.url)
        THEN [status |-> 400, error |-> Error("Missing URL", 0),
              raw |-> sel.url, url |-> None]
        ELSE [status |-> 0, error |-> NoError,
              raw |-> sel.url, url |-> NormalizeUrl(sel.url)]

IdleReq ==
    [pc |-> "idle", raw |-> None, url |-> None, t |-> 0, score |-> 0, payload |-> NoFile,
     entry |-> NoFile, sha |-> NoFile, index |-> <<>>, ops |-> <<>>,
     seen |-> 0, before |-> NoFile, resp |-> NoResp]

\* A request is in flight from its receipt until its response.
InFlight(p) == req[p].pc \notin {"idle", "done"}

Respond(r, resp) == [r EXCEPT !.pc = "done", !.resp = resp]

\* Lines 36-61: receive a request, pick and validate its URL, normalise it.
\* Each request reads datetime.utcnow() at its own instants: t, the number of
\* the request, stands for those timestamps (distinct from request to request).
\* History: before is the persisted index as the request found it.
Receive(p) ==
    /\ req[p].pc = "idle"
    /\ nreq < MaxRequests
    /\ \E method \in Methods, query \in Queries, body \in Bodies :
          /\ method = "GET" => body = NoBody
          /\ LET got == Accept(method, query, body)
                 r == [IdleReq EXCEPT !.t = nreq + 1, !.raw = got.raw,
                                      !.before = Lookup(UploadPath(index_path))]
             IN  req' = [req EXCEPT ![p] =
                    IF got.status = 400
                    THEN Respond(r, JSONResponse(400, got.error, None, 0))
                    ELSE [r EXCEPT !.pc = "extract", !.url = got.url]]
    /\ nreq' = nreq + 1
    /\ overlapped' = (overlapped \/ \E q \in Workers \ {p} : InFlight(q))
    /\ UNCHANGED <<store, ok_urls, index0, fn>>

(***************************************************************************)
(* analyze: the orchestration sequence inside the try block.               *)
(***************************************************************************)
\* History: the collaborator and store calls a request has made, in order,
\* each with the path it addressed and the status the store answered.
Did(r, op, path, status) ==
    [r EXCEPT !.ops = Append(@, [op |-> op, path |-> path, status |-> status])]

\* Mutant: the exception escapes the handler and no JSON response is built.
FailUncaught(r, error) == [r EXCEPT !.pc = "crashed"]

\* Lines 95-96: the catch-all at the request boundary.
Fail(r, error) == Respond(r, JSONResponse(500, error, None, 0))

\* Line 66: extract_text(url); it raises when the fetch fails.
Extract(p) ==
    /\ req[p].pc = "extract"
    /\ \E fetched \in BOOLEAN :
          LET r == Did(req[p], "extract", <<>>, 0)
          IN  req' = [req EXCEPT ![p] =
                 IF fetched THEN [r EXCEPT !.pc = "summarize"]
                 ELSE Fail(r, Error("fetch failed", 0))]
    /\ UNCHANGED <<store, nreq, ok_urls, overlapped, index0, fn>>

\* Lines 67-78: summarize(text, url) returns the model's record, the fallback
\* record (score 0) when the model's output does not parse, or raises when
\* the completion call fails; then the StoredDocument is built.
Summarize(p) ==
    /\ req[p].pc = "summarize"
    /\ \E outcome \in {"ok", "fallback", "raise"}, s \in Scores :
          LET r == Did(req[p], "summarize", <<>>, 0)
              score == IF outcome = "ok" THEN s ELSE FallbackScore
          IN  /\ outcome # "ok" => s = CHOOSE x \in Scores : TRUE
              /\ req' = [req EXCEPT ![p] =
                    IF outcome = "raise"
                    THEN Fail(r, Error("completion failed", 0))
                    ELSE [r EXCEPT !.pc = "doc_sha", !.score = score,
                                   !.payload = Document(r.url, score, r.t)]]
    /\ UNCHANGED <<store, nreq, ok_urls, overlapped, index0, fn>>

(***************************************************************************)
(* upload_json and get_existing_sha (aio_host.py).                         *)
(***************************************************************************)
\* Line 73: the store's answer to the GET of path.
GetStatus(path) == IF path \in DOMAIN store THEN 200 ELSE 404

\* Mutant: the marker read never finds a file.
GetShaNone(path) == NoFile

\* Lines 71-76: the revision marker of the file at path, None when absent.
get_existing_sha(path) == Lookup(path)

\* The store's answer to PUT (line 95): 201 creates, 200 updates when the
\* marker matches the current file, 409 on a stale marker, 422 when the file
\* exists and no marker was sent, 503 when the store is unavailable.
PutStatus(path, sha, available) ==
    IF ~available THEN 503
    ELSE IF sha = NoFile
         THEN IF path \in DOMAIN store THEN 422 ELSE 201
         ELSE IF Lookup(path) = sha THEN 200 ELSE 409

\* The store changes the file exactly when it answers 200 or 201.
StoreAccepts(status) == status \in {200, 201}

\* Mutant: upload_json never raises.
PutOkAlways(status) == TRUE

\* Mutant: upload_json raises on server errors only.
PutOkBelow500(status) == status < 500

\* Line 96: upload_json raises unless the status is 200 or 201.
PutOk(status) == status \in {200, 201}

UploadFailed(status) == Error("GitHub upload failed", status)

\* Lines 82-87: upload_json resolves its path and reads the revision marker.
DocSha(p) ==
    /\ req[p].pc = "doc_sha"
    /\ LET path == UploadPath(sanitize_filename(req[p].url))
       IN  req' = [req EXCEPT ![p] =
              [Did(@, "doc_sha", path, GetStatus(path)) EXCEPT !.pc = "doc_put",
                                                !.sha = get_existing_sha(path)]]
    /\ UNCHANGED <<store, nreq, ok_urls, overlapped, index0, fn>>

\* Lines 88-98 for the document, then line 80 enters update_index.
DocPut(p) ==
    /\ req[p].pc = "doc_put"
    /\ \E available \in BOOLEAN :
          LET path == UploadPath(sanitize_filename(req[p].url))
              status == PutStatus(path, req[p].sha, available)
              r == Did(req[p], "doc_put", path, status)
          IN  /\ store' = IF StoreAccepts(status) THEN Stored(path, req[p].payload)
                          ELSE store
              /\ req' = [req EXCEPT ![p] =
                    IF PutOk(status)
                    THEN [r EXCEPT !.pc = "idx_read", !.sha = NoFile]
                    ELSE Fail(r, UploadFailed(status))]
    /\ UNCHANGED <<nreq, ok_urls, overlapped, index0, fn>>

(***************************************************************************)
(* update_index (aio_host.py).                                             *)
(***************************************************************************)
\* Lines 119-127: the prior index; [] when index.json is absent (non-200) or
\* its content does not decode, otherwise whatever JSON value it holds.
ReadIndex(content) ==
    IF content.kind \in {"none", "garbage"} THEN IndexDocument(<<>>) ELSE content

\* Line 130 raises TypeError on JSON that is not an array of objects and
\* KeyError on an object without "source".
FilterRaises(existing) ==
    \/ existing.kind # "array"
    \/ \E k \in 1..Len(existing.items) : "source" \notin DOMAIN existing.items[k]

\* Mutant: the entry is appended without dropping the older ones.
UpsertNoFilter(existing_index, entry) == Append(existing_index, entry)

\* Mutant: the new entry is put in front of the kept ones.
UpsertPrepend(existing_index, entry) ==
    <<entry>> \o SelectSeq(existing_index, LAMBDA i : i.source # entry.source)

\* Mutant: the filter keeps the entries of the same source and drops the others.
UpsertKeepSame(existing_index, entry) ==
    SelectSeq(existing_index, LAMBDA i : i.source = entry.source) \o <<entry>>

\* Lines 130-131: drop every entry of the same source, append the new one.
Upsert(existing_index, entry) ==
    SelectSeq(existing_index, LAMBDA i : i.source # entry.source) \o <<entry>>

\* Lines 111-131: build the entry, GET index.json, replace or add the entry.
\* History: seen is the number of index writes accepted before this read.
IdxRead(p) ==
    /\ req[p].pc = "idx_read"
    /\ LET r == [Did(req[p], "idx_read", index_path, 0) EXCEPT !.seen = Len(ok_urls)]
           entry == IndexEntry(r.url, sanitize_filename(r.url), r.score, r.t)
           existing == ReadIndex(Lookup(index_path))
       IN  req' = [req EXCEPT ![p] =
              IF FilterRaises(existing)
              THEN Fail([r EXCEPT !.entry = entry], Error("TypeError or KeyError", 0))
              ELSE [r EXCEPT !.pc = "idx_sha", !.entry = entry,
                             !.index = existing.items,
                             !.payload = IndexDocument(Upsert(existing.items, entry))]]
    /\ UNCHANGED <<store, nreq, ok_urls, overlapped, index0, fn>>

\* Line 134 -> lines 82-87: upload_json(index_path, ...) resolves its path and
\* reads the revision marker.
IdxSha(p) ==
    /\ req[p].pc = "idx_sha"
    /\ LET path == UploadPath(index_path)
       IN  req' = [req EXCEPT ![p] =
              [Did(@, "idx_sha", path, GetStatus(path)) EXCEPT !.pc = "idx_put",
                                                !.sha = get_existing_sha(path)]]
    /\ UNCHANGED <<store, nreq, ok_urls, overlapped, index0, fn>>

\* Lines 88-98 for the index, then the 200 response of lines 85-93.
IdxPut(p) ==
    /\ req[p].pc = "idx_put"
    /\ \E available \in BOOLEAN :
          LET path == UploadPath(index_path)
              status == PutStatus(path, req[p].sha, available)
              r == Did(req[p], "idx_put", path, status)
          IN  /\ store' = IF StoreAccepts(status) THEN Stored(path, req[p].payload)
                          ELSE store
              /\ req' = [req EXCEPT ![p] =
                    IF PutOk(status)
                    THEN Respond(r, JSONResponse(200, NoError, r.url, r.score))
                    ELSE Fail(r, UploadFailed(status))]
              /\ ok_urls' = IF PutOk(status) THEN Append(ok_urls, r.url) ELSE ok_urls
    /\ UNCHANGED <<nreq, overlapped, index0, fn>>

\* The response has been sent; the worker takes the next request.
Finish(p) ==
    /\ req[p].pc = "done"
    /\ req' = [req EXCEPT ![p] = IdleReq]
    /\ UNCHANGED <<store, nreq, ok_urls, overlapped, index0, fn>>

(***************************************************************************)
(* Initial states: an empty store, or one where somebody already put an    *)
(* index.json at the top level (an array of entries, a JSON object, an     *)
(* array with an entry lacking "source", or bytes that are not JSON).      *)
(***************************************************************************)
InitEntries ==
    { IndexEntry(NormalizeUrl(u), sanitize_filename(NormalizeUrl(u)), 10, 0) :
        u \in { <<"a">>, <<"i", "n", "d", "e", "x">> } }

RECURSIVE SeqsUpTo(_, _)
SeqsUpTo(S, n) ==
    IF n = 0 THEN { <<>> }
    ELSE LET shorter == SeqsUpTo(S, n - 1)
         IN  shorter \cup { Append(q, x) : q \in shorter, x \in S }

InitialIndexes ==
    { NoFile, Garbage, Document(HTTPS_PREFIX \o <<"a">>, 10, 0),
      IndexDocument(<<[aio_score |-> 10]>>) }
    \cup { IndexDocument(items) : items \in SeqsUpTo(InitEntries, MaxInitIndex) }


\* The harness is not used while the server runs.
NoFn ==
    [op |-> "none", url |-> <<>>, method |-> "", query |-> None, body |-> NoBody,
     out |-> <<>>]

Init ==
    /\ index0 \in InitialIndexes
    /\ store = IF index0 = NoFile THEN <<>> ELSE (index_path :> index0)
    /\ req = [p \in Workers |-> IdleReq]
    /\ nreq = 0
    /\ ok_urls = <<>>
    /\ overlapped = FALSE
    /\ fn = NoFn

Next ==
    \/ \E p \in Workers : Receive(p)
    \/ \E p \in Workers : Extract(p)
    \/ \E p \in Workers : Summarize(p)
    \/ \E p \in Workers : DocSha(p)
    \/ \E p \in Workers : DocPut(p)
    \/ \E p \in Workers : IdxRead(p)
    \/ \E p \in Workers : IdxSha(p)
    \/ \E p \in Workers : IdxPut(p)
    \/ \E p \in Workers : Finish(p)

Spec == Init /\ [][Next]_vars

(***************************************************************************)
(* Harness for the pure functions: a state holds one input, an action      *)
(* applies one function to it.  The store and the workers stay as they are *)
(* after start-up.                                                         *)
(***************************************************************************)
Tokens == { HTTPS_PREFIX, HTTP_PREFIX, <<"a">>, <<"/">>, <<"_">>, <<"?">>, <<" ">> }

RECURSIVE Flatten(_)
Flatten(ts) == IF ts = <<>> THEN <<>> ELSE Head(ts) \o Flatten(Tail(ts))

\* Every string made of at most MaxTokens tokens.
GenUrls == { Flatten(ts) : ts \in SeqsUpTo(Tokens, MaxTokens) }

FnInput(op, url, method, query, body) ==
    [op |-> op, url |-> url, method |-> method, query |-> query, body |-> body,
     out |-> <<>>]

LookupIn(st, path) == IF path \in DOMAIN st THEN st[path] ELSE NoFile

\* Lines 119-134 run to the end on store st with no other writer in between
\* and the store answering every call: the store they leave.  (The marker
\* upload_json reads is then the current one, so the PUT is accepted; when
\* line 130 raises nothing is written.)
update_index(st, entry) ==
    LET existing == ReadIndex(LookupIn(st, index_path))
        path == UploadPath(index_path)
    IN  IF FilterRaises(existing) THEN st
        ELSE [q \in DOMAIN st \cup {path} |->
                IF q = path THEN IndexDocument(Upsert(existing.items, entry))
                ELSE st[q]]

\* Entries and prior indexes for the harness.
EntryPool ==
    { IndexEntry(NormalizeUrl(u), sanitize_filename(NormalizeUrl(u)), score, t) :
        u \in RawUrls \ { <<" ">> }, score \in {10} \cup Scores, t \in {0, 1} }

PriorIndexes ==
    {NoFile} \cup { IndexDocument(items) : items \in SeqsUpTo(EntryPool, MaxInitIndex) }

FnIndexInput(prior, entry) ==
    [op |-> "index", prior |-> prior, entry |-> entry, out |-> <<>>]

InitFn ==
    /\ index0 = NoFile
    /\ store = <<>>
    /\ req = [p \in Workers |-> IdleReq]
    /\ nreq = 0
    /\ ok_urls = <<>>
    /\ overlapped = FALSE
    /\ \/ \E u \in GenUrls : fn = FnInput("url", u, "", None, NoBody)
       \/ \E prior \in PriorIndexes, entry \in EntryPool : fn = FnIndexInput(prior, entry)
       \/ \E method \in Methods, query \in Queries, body \in Bodies :
             /\ method = "GET" => body = NoBody
             /\ fn = FnInput("request", <<>>, method, query, body)

FnSanitize ==
    /\ fn.op = "url"
    /\ fn' = [fn EXCEPT !.op = "sanitize_filename", !.out = sanitize_filename(fn.url)]
    /\ UNCHANGED <<store, req, nreq, ok_urls, overlapped, index0>>

FnNormalize ==
    /\ fn.op = "url"
    /\ fn' = [fn EXCEPT !.op = "normalize", !.out = NormalizeUrl(fn.url)]
    /\ UNCHANGED <<store, req, nreq, ok_urls, overlapped, index0>>

FnAccept ==
    /\ fn.op = "request"
    /\ fn' = [fn EXCEPT !.op = "accept", !.out = Accept(fn.method, fn.query, fn.body)]
    /\ UNCHANGED <<store, req, nreq, ok_urls, overlapped, index0>>

\* Lines 66-90 when every step succeeds: where the handler's url goes.
AnalyzeFlow(url, score, t) ==
    [extract_text |-> url,
     payload |-> Document(url, score, t),
     filename |-> sanitize_filename(url),
     entry |-> IndexEntry(url, sanitize_filename(url), score, t),
     resp |-> JSONResponse(200, NoError, url, score)]

\* GET /analyze?url=<fn.url> with every collaborator and store call succeeding.
FnAnalyze ==
    /\ fn.op = "url"
    /\ Truthy(fn.url)
    /\ LET got == Accept("GET", fn.url, NoBody)
       IN  \E score \in Scores :
              fn' = [fn EXCEPT !.op = "analyze", !.out = AnalyzeFlow(got.url, score, 1)]
    /\ UNCHANGED <<store, req, nreq, ok_urls, overlapped, index0>>

\* update_index twice in a row with the same entry.
FnUpsertTwice ==
    /\ fn.op = "index"
    /\ LET st0 == IF fn.prior = NoFile THEN <<>> ELSE (index_path :> fn.prior)
           st1 == update_index(st0, fn.entry)
           st2 == update_index(st1, fn.entry)
       IN  fn' = [fn EXCEPT !.op = "update_index_twice",
                            !.out = [first |-> st1, second |-> st2]]
    /\ UNCHANGED <<store, req, nreq, ok_urls, overlapped, index0>>

NextFn == FnSanitize \/ FnNormalize \/ FnAccept \/ FnAnalyze \/ FnUpsertTwice

SpecFn == InitFn /\ [][NextFn]_vars

(***************************************************************************)
(* Properties of the index.                                                *)
(***************************************************************************)
Quiet == \A p \in Workers : ~InFlight(p)

Range(q) == { q[k] : k \in 1..Len(q) }

\* An array whose elements all carry a source.
IsIndex(content) ==
    /\ content.kind = "array"
    /\ \A k \in 1..Len(content.items) : "source" \in DOMAIN content.items[k]

Sources(items) == { items[k].source : k \in 1..Len(items) }

UniqueSources(items) ==
    \A j, k \in 1..Len(items) : items[j].source = items[k].source => j = k

\* C1: starting from an empty store, once analyze requests that ran one after
\* another have all returned 200, the store holds an index document with
\* exactly one entry for every distinct URL processed so far.
C1_RollingIndex ==
    (index0 = NoFile /\ ~overlapped /\ Quiet /\ nreq > 0 /\ Len(ok_urls) = nreq)
    => \E path \in DOMAIN store :
          /\ IsIndex(store[path])
          /\ UniqueSources(store[path].items)
          /\ Sources(store[path].items) = Range(ok_urls)

\* The calls of kind op that the request of worker p has made.
Calls(p, op) == SelectSeq(req[p].ops, LAMBDA c : c.op = op)

\* C2: every upsert reads the prior index from index.json and writes the new
\* one to index.json, never under data/; every document goes to
\* data/<derived filename>.
C2_StoragePaths ==
    \A p \in Workers :
       /\ \A c \in Range(Calls(p, "idx_read")) : c.path = index_path
       /\ \A c \in Range(Calls(p, "idx_put")) :
             c.path = index_path /\ ~StartsWith(c.path, DATA_PREFIX)
       /\ \A c \in Range(Calls(p, "doc_put")) :
             c.path = DATA_PREFIX \o sanitize_filename(req[p].url)

\* C3: when the initial index.json is missing, empty, or any array with at
\* most one entry per source, every index document in the store has at most
\* one entry per source, whatever the interleaving of the requests.
C3_IndexUnique ==
    (index0 = NoFile \/ (IsIndex(index0) /\ UniqueSources(index0.items)))
    => \A path \in DOMAIN store :
          IsIndex(store[path]) => UniqueSources(store[path].items)

\* An upsert answered 200 for a URL the initial two-entry index already
\* listed: the index it wrote still has two entries.
C3_Witness ==
    /\ IsIndex(index0) /\ Len(index0.items) = 2 /\ UniqueSources(index0.items)
    /\ \E p \in Workers :
          /\ req[p].resp.status = 200
          /\ req[p].url \in Sources(index0.items)
          /\ Lookup(UploadPath(index_path)) = req[p].payload
          /\ Len(req[p].payload.items) = 2

\* The elements of items whose source is not x, in their order.
RECURSIVE WithoutSource(_, _)
WithoutSource(items, x) ==
    IF items = <<>> THEN <<>>
    ELSE IF Head(items).source = x THEN WithoutSource(Tail(items), x)
         ELSE <<Head(items)>> \o WithoutSource(Tail(items), x)

\* C4: the index an upsert for URL X produces is the prior index without its
\* entries for X, the others unchanged and in order, followed by one new
\* entry for X that carries the new score.
C4_UpsertReplaces ==
    \A p \in Workers :
       req[p].payload.kind = "array" =>
          LET new == req[p].payload.items
              last == new[Len(new)]
          IN  /\ Len(new) >= 1
              /\ SubSeq(new, 1, Len(new) - 1) = WithoutSource(req[p].index, req[p].url)
              /\ last.source = req[p].url
              /\ last.aio_score = req[p].score
              /\ Cardinality({ k \in 1..Len(new) : new[k].source = req[p].url }) = 1

\* The prior index lists X first with score 10 and another URL after it; the
\* upsert for X carries score 20.
C4_Witness ==
    \E p \in Workers :
       /\ req[p].payload.kind = "array"
       /\ Len(req[p].index) = 2
       /\ req[p].index[1].source = req[p].url
       /\ req[p].index[1].aio_score = 10
       /\ req[p].score = 20
       /\ Calls(p, "idx_put") # <<>>
       /\ req[p].resp.status = 200

(***************************************************************************)
(* Properties of the request handler.                                      *)
(***************************************************************************)
\* Missing, empty, or empty once surrounding whitespace is trimmed.
Blank(raw) == raw = None \/ Strip(raw, Whitespace) = <<>>

\* C5: a request whose URL is missing, empty or blank after trimming is
\* answered 400 and makes no collaborator or store call.
C5_BlankUrlRejected ==
    \A p \in Workers :
       (req[p].pc # "idle" /\ Blank(req[p].raw))
       => /\ req[p].pc = "done"
          /\ req[p].resp.status = 400
          /\ req[p].ops = <<>>

Rejected(call) == call.status \notin {200, 201}

\* C6: a request whose document write the store rejected makes no further
\* call (no index read, no index write) and answers 500 with the upload
\* error that carries the store's status.
C6_DocWriteFailureStops ==
    \A p \in Workers : \A k \in 1..Len(req[p].ops) :
       (req[p].ops[k].op = "doc_put" /\ Rejected(req[p].ops[k]))
       => /\ k = Len(req[p].ops)
          /\ req[p].pc = "done"
          /\ req[p].resp.status = 500
          /\ req[p].resp.error.msg = "GitHub upload failed"
          /\ req[p].resp.error.status = req[p].ops[k].status

\* A document write lost the compare-and-swap (409) and the request ended.
C6_Witness ==
    \E p \in Workers :
       /\ req[p].pc = "done"
       /\ req[p].ops # <<>>
       /\ req[p].ops[Len(req[p].ops)].op = "doc_put"
       /\ req[p].ops[Len(req[p].ops)].status = 409

OpNames(p) == [k \in 1..Len(req[p].ops) |-> req[p].ops[k].op]

Puts(p) == SelectSeq(req[p].ops, LAMBDA c : c.op \in {"doc_put", "idx_put"})

\* C7: a request answered 200 made its calls in the fixed order and exactly
\* two store writes, both accepted, the document first and the index second;
\* a request that failed in validation, extraction or summarization made no
\* store write.
C7_WriteCountOrder ==
    \A p \in Workers :
       req[p].pc = "done" =>
          /\ req[p].resp.status = 200 =>
                /\ OpNames(p) = <<"extract", "summarize", "doc_sha", "doc_put",
                                  "idx_read", "idx_sha", "idx_put">>
                /\ Len(Puts(p)) = 2
                /\ \A k \in 1..2 : ~Rejected(Puts(p)[k])
          /\ (\/ req[p].resp.status = 400
              \/ req[p].resp.error.msg \in {"fetch failed", "completion failed"})
             => Puts(p) = <<>>

\* One request was answered 200 and another failed in summarization.
C7_Witness ==
    \E p, q \in Workers :
       /\ req[p].pc = "done" /\ req[p].resp.status = 200
       /\ req[q].pc = "done" /\ req[q].resp.error.msg = "completion failed"

\* The request ended on a step that failed: its last call is not an accepted
\* index write.
EndedInFailure(p) ==
    /\ req[p].pc = "done"
    /\ req[p].ops # <<>>
    /\ LET last == req[p].ops[Len(req[p].ops)]
       IN  ~(last.op = "idx_put" /\ ~Rejected(last))

\* C8: a request has a response exactly when it has ended; a failure of
\* extraction, summarization, the document write or the index upsert gives
\* 500 with an error message; 400 is given only by validation, before any
\* call; and a worker that has answered can take the next request.
C8_ErrorMapping ==
    \A p \in Workers :
       /\ req[p].pc \in {"idle", "extract", "summarize", "doc_sha", "doc_put",
                         "idx_read", "idx_sha", "idx_put", "done"}
       /\ (req[p].pc = "done") = (req[p].resp # NoResp)
       /\ req[p].pc = "done" => req[p].resp.status \in {200, 400, 500}
       /\ EndedInFailure(p) =>
             req[p].resp.status = 500 /\ req[p].resp.error.msg # ""
       /\ req[p].resp.status = 500 => EndedInFailure(p)
       /\ req[p].resp.status = 400 =>
             /\ req[p].ops = <<>>
             /\ req[p].resp.error.msg \in {"Invalid JSON body", "Missing URL"}
       /\ req[p].resp.status = 200 => req[p].resp.error = NoError
       /\ req[p].pc = "done" => ENABLED Finish(p)
       /\ (req[p].pc = "idle" /\ nreq < MaxRequests) => ENABLED Receive(p)

\* A request failed in the index upsert with 500 and a request received
\* after it was answered 200.
C8_Witness ==
    \E p, q \in Workers :
       /\ req[p].resp.status = 500
       /\ req[p].ops[Len(req[p].ops)].op \in {"idx_read", "idx_put"}
       /\ req[q].resp.status = 200
       /\ req[q].t > req[p].t

\* C9: for POST the URL is the body's url field, the query parameter being
\* used when the body supplies none (also when there is no body); a malformed
\* body gives 400 "Invalid JSON body"; neither source gives 400 "Missing URL".
\* (A body that is JSON but not an object is left unconstrained.)
C9_PostBodyFirst ==
    (fn.op = "accept" /\ fn.method = "POST" /\ fn.body.kind # "nonobject") =>
       LET chosen == IF Truthy(fn.body.url) THEN fn.body.url ELSE fn.query
       IN  IF fn.body.kind = "malformed"
           THEN fn.out.status = 400 /\ fn.out.error.msg = "Invalid JSON body"
           ELSE IF Truthy(chosen)
           THEN fn.out.status = 0 /\ fn.out.raw = chosen
           ELSE fn.out.status = 400 /\ fn.out.error.msg = "Missing URL"

StripPrefix(s, prefix) ==
    IF StartsWith(s, prefix) THEN SubSeq(s, Len(prefix) + 1, Len(s)) ELSE s

\* The derivation as claimed: only a leading scheme is stripped.
PrefixOnlyFilename(url) ==
    LET stripped == StripPrefix(StripPrefix(url, HTTPS_PREFIX), HTTP_PREFIX)
    IN  Strip(ReplaceEach(stripped, SanitizedChars), {"_"}) \o JSON_EXT

\* C10: sanitize_filename strips a leading https:// or http:// only, replaces
\* each of / ? & = # by _, trims leading and trailing _ and appends .json.
C10_PrefixOnly ==
    fn.op = "sanitize_filename" => fn.out = PrefixOnlyFilename(fn.url)

(***************************************************************************)
(* URL normalisation.                                                      *)
(***************************************************************************)
\* Positions of s that hold a character outside chars.
Outside(s, chars) == { k \in 1..Len(s) : s[k] \notin chars }

Min(S) == CHOOSE x \in S : \A y \in S : x <= y
Max(S) == CHOOSE x \in S : \A y \in S : x >= y

\* s from its first to its last character outside chars.
Trimmed(s, chars) ==
    IF Outside(s, chars) = {} THEN <<>>
    ELSE SubSeq(s, Min(Outside(s, chars)), Max(Outside(s, chars)))

\* s from its first character outside chars on.
LeftTrimmed(s, chars) ==
    IF Outside(s, chars) = {} THEN <<>>
    ELSE SubSeq(s, Min(Outside(s, chars)), Len(s))

\* The three rules, in order.
ThreeRules(raw) ==
    LET r1 == Trimmed(raw, Whitespace)
        r2 == IF StartsWith(r1, HTTP_PREFIX) \/ StartsWith(r1, HTTPS_PREFIX)
              THEN r1
              ELSE HTTPS_PREFIX \o LeftTrimmed(r1, {"/"})
    IN  IF r2 # <<>> /\ r2[Len(r2)] = "/" THEN SubSeq(r2, 1, Len(r2) - 1) ELSE r2

\* C11: the handler's normalised URL is the raw URL trimmed, given https://
\* (after dropping leading /) when it has no scheme, and shortened by exactly
\* one trailing /; that value is the one extracted, stored as the document's
\* and the index entry's source, and returned as the response's url.
C11_Normalization ==
    /\ fn.op = "normalize" => fn.out = ThreeRules(fn.url)
    /\ fn.op = "analyze" =>
          /\ fn.out.extract_text = ThreeRules(fn.url)
          /\ fn.out.payload.source = ThreeRules(fn.url)
          /\ fn.out.entry.source = ThreeRules(fn.url)
          /\ fn.out.resp.url = ThreeRules(fn.url)

\* "a//" is analysed as "https://a/".
C11_Witness ==
    /\ fn.op = "analyze"
    /\ fn.url = <<"a", "/", "/">>
    /\ fn.out.resp.url = HTTPS_PREFIX \o <<"a", "/">>

C13_CorruptIndexAsEmpty ==
    \A p \in Workers :
       (Calls(p, "idx_read") # <<>> /\ ~IsIndex(Lookup(index_path))) =>
          /\ req[p].ops[Len(req[p].ops)].op = "idx_read" => req[p].pc = "idx_sha"
          /\ req[p].pc \in {"idx_sha", "idx_put"} =>
                req[p].payload = IndexDocument(<<req[p].entry>>)

(***************************************************************************)
(* Lost update.                                                            *)
(***************************************************************************)
\* Requests p and q, for different URLs, both read the index before either
\* wrote it, both were answered 200, and p's index write came first.
Raced(p, q) ==
    /\ p # q
    /\ req[p].pc = "done" /\ req[q].pc = "done"
    /\ req[p].resp.status = 200 /\ req[q].resp.status = 200
    /\ req[p].url # req[q].url
    /\ req[p].seen = 0 /\ req[q].seen = 0
    /\ ok_urls = <<req[p].url, req[q].url>>

\* C14: after such a race the index that is left is the later writer's: it
\* has the later request's entry and not the earlier request's, and neither
\* response reports an error.
C14_LostUpdate ==
    \A p, q \in Workers :
       Raced(p, q) =>
          LET final == Lookup(UploadPath(index_path))
          IN  /\ final = req[q].payload
              /\ req[q].entry \in Range(final.items)
              /\ req[p].entry \notin Range(final.items)
              /\ req[p].resp.error = NoError /\ req[q].resp.error = NoError

\* The race happened, on an index that had nothing for either URL at first.
C14_Witness ==
    \E p, q \in Workers :
       /\ Raced(p, q)
       /\ index0 = NoFile
       /\ Len(Lookup(UploadPath(index_path)).items) = 1

(***************************************************************************)
(* Compare-and-swap write.                                                 *)
(***************************************************************************)
\* The path upload_json addresses while request r is inside it.
PutPath(r) ==
    IF r.pc \in {"doc_sha", "doc_put"} THEN UploadPath(sanitize_filename(r.url))
    ELSE UploadPath(index_path)

\* One step of upload_json by worker p, from r to r2.
CasStep(p) ==
    LET r == req[p]
        r2 == req'[p]
        path == PutPath(r)
    IN  /\ (r.pc \in {"doc_sha", "idx_sha"} /\ r2 # r) =>
              \* the marker is kept exactly when the path exists at the read
              /\ (r2.sha # NoFile) <=> (path \in DOMAIN store)
              /\ r2.sha # NoFile => r2.sha = store[path]
        /\ (r.pc \in {"doc_put", "idx_put"} /\ r2 # r) =>
              LET read == r.ops[Len(r.ops)]
                  put == r2.ops[Len(r2.ops)]
              IN  \* one PUT, to the path of the marker read
                  /\ Len(r2.ops) = Len(r.ops) + 1
                  /\ put.op = r.pc /\ put.path = path /\ read.path = path
                  \* 200 and 409 answer a PUT with a marker, 201 and 422 one without
                  /\ put.status \in {200, 409} => read.status = 200
                  /\ put.status \in {201, 422} => read.status = 404
                  \* another write landed since the marker read
                  /\ Lookup(path) # r.sha =>
                        /\ put.status \in {409, 422, 503}
                        /\ store' = store
                        /\ r2.pc = "done"
                        /\ r2.resp = JSONResponse(500, UploadFailed(put.status), None, 0)

DocWritten(p) ==
    \E k \in 1..Len(req[p].ops) :
       req[p].ops[k].op = "doc_put" /\ req[p].ops[k].status \in {200, 201}

\* update_index raised: at its filter, or because its PUT was rejected.
UpsertFailed(p) ==
    /\ req[p].pc = "done"
    /\ req[p].ops # <<>>
    /\ LET last == req[p].ops[Len(req[p].ops)]
       IN  \/ last.op = "idx_read"
           \/ last.op = "idx_put" /\ Rejected(last)

\* Nothing but request p has touched the store since p was received.
Alone(p) == ~overlapped /\ req[p].t = nreq

\* C16: a request whose document write succeeded and whose index upsert
\* failed is answered 500; its document is in the store and the persisted
\* index is what it was when the request arrived.
C16_NoPartialRollback ==
    \A p \in Workers :
       (DocWritten(p) /\ UpsertFailed(p)) =>
          /\ req[p].resp.status = 500
          /\ Alone(p) =>
                /\ Lookup(UploadPath(sanitize_filename(req[p].url)))
                      = Document(req[p].url, req[p].score, req[p].t)
                /\ Lookup(UploadPath(index_path)) = req[p].before

(***************************************************************************)
(* Index entries and the documents they point at.                          *)
(***************************************************************************)
\* The entries of the persisted index; none while no index has been written.
Persisted ==
    LET idx == Lookup(UploadPath(index_path))
    IN  IF idx.kind = "array" THEN idx.items ELSE <<>>

\* An analysis document (lines 72-76 of aio_api.py) is stored at path.
HasDocument(path) == Lookup(path).kind = "dict"

\* C17: starting from an empty store, every entry of the persisted index
\* has a json path at which a stored document exists.
C17_ReferentialIntegrity ==
    index0 = NoFile =>
       \A k \in 1..Len(Persisted) : HasDocument(Persisted[k].json)

\* The document path of the request worker p is serving.
DocPath(p) == UploadPath(sanitize_filename(req[p].url))

\* C18: starting from an empty store, the document at the json path of every
\* entry of the persisted index has the entry's source; no two entries point
\* at one document path; and no request's document path is the path the
\* index is written to.
C18_EntryDocumentAgreement ==
    index0 = NoFile =>
       /\ \A k \in 1..Len(Persisted) :
             /\ HasDocument(Persisted[k].json)
             /\ Lookup(Persisted[k].json).source = Persisted[k].source
       /\ \A j, k \in 1..Len(Persisted) :
             j # k => Persisted[j].json # Persisted[k].json
       /\ \A p \in Workers :
             req[p].url # None => DocPath(p) # UploadPath(index_path)

====
